---- MODULE Spec2Model ----
(***************************************************************************)
(* Model of dikerosion/data/dikernelrevetmentzonespecification.py:         *)
(* HorizontalRevetmentZoneDefinition, VerticalRevetmentZoneDefinition and  *)
(* AsphaltRevetmentZoneSpecification, together with the numpy routines     *)
(* they call (ceil, linspace, interp, union1d).                            *)
(*                                                                         *)
(* Numbers are exact rationals <<numerator, denominator>> in lowest terms  *)
(* with a positive denominator, so that two equal values are the same      *)
(* TLA+ value; floating-point rounding is not modelled.  Python's None is  *)
(* the empty tuple and a set attribute v is the one-element tuple <<v>>.   *)
(***************************************************************************)
EXTENDS Integers, Sequences, FiniteSets

\* ------------------------------------------------------------------ bounds

\* Zone limits (x_min, x_max, z_min, z_max) are drawn from 0 .. MaxCoord.
MaxCoord == 2

\* nx and nz, when set, are drawn from 0 .. MaxCount.
MaxCount == 3

\* dx_max and dz_max, when set, are drawn from 0 .. MaxStep.
MaxStep == 2

\* ------------------------------------------------------- rational numbers

Abs(i) == IF i < 0 THEN -i ELSE i

RECURSIVE GCD(_, _)
GCD(a, b) == IF b = 0 THEN a ELSE GCD(b, a % b)

\* n/d in lowest terms, d # 0.
Rat(n, d) ==
    LET g == GCD(Abs(n), Abs(d))
        s == IF d < 0 THEN -1 ELSE 1
    IN  <<(s * n) \div g, (s * d) \div g>>

R(i) == <<i, 1>>

RAdd(a, b) == Rat(a[1] * b[2] + b[1] * a[2], a[2] * b[2])
RSub(a, b) == Rat(a[1] * b[2] - b[1] * a[2], a[2] * b[2])
RMul(a, b) == Rat(a[1] * b[1], a[2] * b[2])
RDiv(a, b) == Rat(a[1] * b[2], a[2] * b[1])
RLt(a, b) == a[1] * b[2] < b[1] * a[2]
RLeq(a, b) == a[1] * b[2] <= b[1] * a[2]

\* numpy.ceil(q).astype(int): the least integer >= q.
Ceil(q) == -((-q[1]) \div q[2])

None == <<>>
Some(v) == <<v>>

\* ---------------------------------------------------------------- results

\* The outcome of a call: a returned sequence, or a raised exception.
\* grid is the local linspace array (x_coordinates before the union,
\* z_output_coordinates) at the point the call ended.
Ok(value, grid) == [kind |-> "ok", error |-> "", value |-> value, grid |-> grid]
Raise(error) == [kind |-> "error", error |-> error, value |-> <<>>, grid |-> <<>>]

Range(s) == {s[i] : i \in 1..Len(s)}

\* ------------------------------------------------------------------ numpy

\* linspace as if called with endpoint=False: the step is (stop - start) / num
\* and stop is not a sample.
LinspaceNoEndpoint(start, stop, num) ==
    IF num < 0 THEN Raise("ValueError")
    ELSE LET step == IF num > 0 THEN RDiv(RSub(stop, start), R(num)) ELSE R(0)
             arr == [i \in 1..num |-> RAdd(start, RMul(R(i - 1), step))]
         IN  Ok(arr, arr)

\* numpy.linspace(start, stop, num): num evenly spaced samples over
\* [start, stop], endpoint included; the last sample is stop itself.
\* A negative num raises ValueError; num = 1 gives [start].
Linspace(start, stop, num) ==
    IF num < 0 THEN Raise("ValueError")
    ELSE LET step == IF num > 1 THEN RDiv(RSub(stop, start), R(num - 1)) ELSE R(0)
             arr == [i \in 1..num |->
                        IF num > 1 /\ i = num THEN stop
                        ELSE RAdd(start, RMul(R(i - 1), step))]
         IN  Ok(arr, arr)

\* The least element of a non-empty set of rationals.
MinOf(S) == CHOOSE m \in S : \A y \in S : RLeq(m, y)

RECURSIVE SortedSeq(_)
SortedSeq(S) ==
    IF S = {} THEN <<>>
    ELSE LET m == MinOf(S) IN <<m>> \o SortedSeq(S \ {m})

\* numpy.intersect1d in the place of union1d: the values common to a and b.
Intersect1d(a, b) == SortedSeq(Range(a) \cap Range(b))

\* numpy.concatenate in the place of union1d: neither sorted nor unique.
Concatenate(a, b) == a \o b

\* numpy.union1d(a, b): the sorted array of the distinct values of a and b.
Union1d(a, b) == SortedSeq(Range(a) \cup Range(b))

\* linear_search of numpy's compiled_base.c, indices from 1:
\* for (i = i0; i < len && key >= arr[i]; i++); return i - 1.
RECURSIVE LinearSearch(_, _, _)
LinearSearch(key, arr, i) ==
    IF i <= Len(arr) /\ RLeq(arr[i], key)
    THEN LinearSearch(key, arr, i + 1)
    ELSE i - 1

\* binary_search_with_guess for at most four sample points (numpy searches
\* linearly then): Len(arr) + 1 above the last sample, 0 below the first,
\* else the index j found by the linear search from the second sample.
BinarySearchWithGuess(key, arr) ==
    IF RLt(arr[Len(arr)], key) THEN Len(arr) + 1
    ELSE IF RLt(key, arr[1]) THEN 0
    ELSE LinearSearch(key, arr, 2)

\* One sample of numpy.interp(x, xp, fp) for non-empty xp: fp[first] left
\* of the samples, fp[last] right of them, otherwise the value on the
\* segment j .. j+1 the search found.
InterpOne(x, xp, fp) ==
    IF Len(xp) = 1 THEN fp[1]
    ELSE LET j == BinarySearchWithGuess(x, xp)
         IN  IF j = 0 THEN fp[1]
             ELSE IF j >= Len(xp) THEN fp[Len(xp)]
             ELSE IF xp[j] = x THEN fp[j]
             ELSE LET slope == RDiv(RSub(fp[j + 1], fp[j]), RSub(xp[j + 1], xp[j]))
                  IN  RAdd(RMul(slope, RSub(x, xp[j])), fp[j])

\* interp behind a guard that returns an empty array for an empty profile.
InterpGuarded(x, xp, fp) ==
    IF Len(xp) = 0 THEN Ok(<<>>, x)
    ELSE Ok([i \in 1..Len(x) |-> InterpOne(x[i], xp, fp)], x)

\* numpy.interp(x, xp, fp): raises ValueError ("array of sample points is
\* empty") when xp is empty, whatever x is.
Interp(x, xp, fp) ==
    IF Len(xp) = 0 THEN Raise("ValueError")
    ELSE Ok([i \in 1..Len(x) |-> InterpOne(x[i], xp, fp)], x)

\* a[mask]: the elements of a at the places where mask is true, in order.
RECURSIVE BoolIndex(_, _)
BoolIndex(a, mask) ==
    IF Len(a) = 0 THEN <<>>
    ELSE (IF Head(mask) THEN <<Head(a)>> ELSE <<>>) \o BoolIndex(Tail(a), Tail(mask))

\* ------------------------------------------------------- zone definitions

\* The sample count without the "+ 1": one point per interval.
ResolveCountNoPlusOne(n, min, max, d_max) ==
    IF n # None THEN Ok(n[1], <<>>)
    ELSE IF d_max = None THEN Raise("TypeError")
    ELSE IF d_max[1] = R(0) THEN Raise("ZeroDivisionError")
    ELSE Ok(Ceil(RDiv(RSub(max, min), d_max[1])), <<>>)

\* The sample count of a zone: nx (nz) when it is set, otherwise
\* ceil((max - min) / d_max) + 1.  With neither set the division by None
\* raises TypeError; a d_max of zero raises ZeroDivisionError.
ResolveCount(n, min, max, d_max) ==
    IF n # None THEN Ok(n[1], <<>>)
    ELSE IF d_max = None THEN Raise("TypeError")
    ELSE IF d_max[1] = R(0) THEN Raise("ZeroDivisionError")
    ELSE Ok(Ceil(RDiv(RSub(max, min), d_max[1])) + 1, <<>>)

\* The schematization's x-positions strictly between x_min and x_max.
HorizontalSplice(zone, dike_schematization) ==
    LET xs == dike_schematization.x_positions
    IN  BoolIndex(xs, [i \in 1..Len(xs) |->
                         RLt(xs[i], zone.x_max) /\ RLt(zone.x_min, xs[i])])

\* HorizontalRevetmentZoneDefinition.get_x_coordinates(dike_schematization)
HorizontalGetXCoordinates(zone, dike_schematization) ==
    LET nx == ResolveCount(zone.nx, zone.x_min, zone.x_max, zone.dx_max)
    IN  IF nx.kind = "error" THEN nx
        ELSE LET x_coordinates == Linspace(zone.x_min, zone.x_max, nx.value)
             IN  IF x_coordinates.kind = "error" THEN x_coordinates
                 ELSE IF zone.include_schematization_coordinates
                 THEN Ok(Union1d(x_coordinates.value,
                                 HorizontalSplice(zone, dike_schematization)),
                         x_coordinates.value)
                 ELSE x_coordinates

\* The crest filter with strict comparisons: the crest vertex on neither side.
FilterMaskStrict(dike_schematization, inner_slope) ==
    LET xs == dike_schematization.x_positions
    IN  [i \in 1..Len(xs) |->
            IF ~inner_slope
            THEN RLt(xs[i], dike_schematization.outer_crest)
            ELSE RLt(dike_schematization.outer_crest, xs[i])]

\* filter_mask: the vertices on the selected side of the crest.
FilterMask(dike_schematization, inner_slope) ==
    LET xs == dike_schematization.x_positions
    IN  [i \in 1..Len(xs) |->
            IF ~inner_slope
            THEN RLeq(xs[i], dike_schematization.outer_crest)
            ELSE RLeq(dike_schematization.outer_crest, xs[i])]

\* z_filter: the filtered vertices whose z lies in [z_min, z_max].
ZFilter(zone, z_dike) ==
    [i \in 1..Len(z_dike) |->
        RLeq(z_dike[i], zone.z_max) /\ RLeq(zone.z_min, z_dike[i])]

\* VerticalRevetmentZoneDefinition.get_x_coordinates(dike_schematization,
\* inner_slope)
VerticalGetXCoordinates(zone, dike_schematization, inner_slope) ==
    LET filter_mask == FilterMask(dike_schematization, inner_slope)
        x_dike == BoolIndex(dike_schematization.x_positions, filter_mask)
        z_dike == BoolIndex(dike_schematization.z_positions, filter_mask)
        nz == ResolveCount(zone.nz, zone.z_min, zone.z_max, zone.dz_max)
    IN  IF nz.kind = "error" THEN nz
        ELSE LET z_output_coordinates == Linspace(zone.z_min, zone.z_max, nz.value)
             IN  IF z_output_coordinates.kind = "error" THEN z_output_coordinates
                 ELSE LET x_output_coordinates ==
                              Interp(z_output_coordinates.value, z_dike, x_dike)
                      IN  IF x_output_coordinates.kind = "error"
                          THEN x_output_coordinates
                          ELSE IF zone.include_schematization_coordinates
                          THEN Ok(Union1d(x_output_coordinates.value,
                                          BoolIndex(x_dike, ZFilter(zone, z_dike))),
                                  z_output_coordinates.value)
                          ELSE x_output_coordinates

IsHorizontal(zone) == zone.cls = "HorizontalRevetmentZoneDefinition"

\* zone_definition.get_x_coordinates(...) as Python dispatches it on the
\* zone's class; the horizontal method takes no inner_slope.
GetXCoordinatesOf(zone, dike_schematization, inner_slope) ==
    IF IsHorizontal(zone)
    THEN HorizontalGetXCoordinates(zone, dike_schematization)
    ELSE VerticalGetXCoordinates(zone, dike_schematization, inner_slope)

\* ---------------------------------------------------- zone specification

\* The record AsphaltOutputLocationSpecification(...) builds from its five
\* positional arguments.
AsphaltOutputLocationSpecification(x, strength, elasticity, thickness, modulus) ==
    [x_position |-> x,
     flexural_strength |-> strength,
     soil_elasticity |-> elasticity,
     upper_layer_thickness |-> thickness,
     upper_layer_elastic_modulus |-> modulus]

\* The loop inserting each record at the front: the records in reverse order.
RECURSIVE AppendLocationsReversed(_, _, _)
AppendLocationsReversed(locations, x_output_locations, self) ==
    IF Len(x_output_locations) = 0 THEN locations
    ELSE AppendLocationsReversed(
             <<AsphaltOutputLocationSpecification(
                   Head(x_output_locations),
                   self.flexural_strength,
                   self.soil_elasticity,
                   self.upper_layer_thickness,
                   self.upper_layer_elastic_modulus)>> \o locations,
             Tail(x_output_locations), self)

\* The loop of get_output_locations: one record appended per coordinate.
RECURSIVE AppendLocations(_, _, _)
AppendLocations(locations, x_output_locations, self) ==
    IF Len(x_output_locations) = 0 THEN locations
    ELSE AppendLocations(
             Append(locations,
                    AsphaltOutputLocationSpecification(
                        Head(x_output_locations),
                        self.flexural_strength,
                        self.soil_elasticity,
                        self.upper_layer_thickness,
                        self.upper_layer_elastic_modulus)),
             Tail(x_output_locations), self)

\* AsphaltRevetmentZoneSpecification.get_output_locations(dike_schematization):
\* the zone definition is called without inner_slope (False by default) and
\* an exception it raises leaves the method.
AsphaltGetOutputLocations(self, zone_definition, dike_schematization) ==
    LET x_output_locations == GetXCoordinatesOf(zone_definition, dike_schematization, FALSE)
    IN  IF x_output_locations.kind = "error" THEN x_output_locations
        ELSE Ok(AppendLocations(<<>>, x_output_locations.value, self),
                x_output_locations.grid)

\* ------------------------------------------------------------------ inputs

Ints(seq) == [i \in 1..Len(seq) |-> R(seq[i])]

\* Dike profiles (x_positions, z_positions), each of at most four vertices
\* with strictly ascending x: a rising outer slope; a dike with a flat crest
\* and a descending inner slope; a rise and a fall; a berm followed by a
\* slope; an outer slope with a dip; a single vertex; and the profile of
\* BgdDeltaFlumeExperiment.generate_dike_schematization,
\* x = [154.4, 160.0, 170.48, 191.48], z = [0.0, 2.0, 4.325, 8.995].
Profiles ==
    { <<Ints(<<0, 1, 2>>), Ints(<<0, 1, 2>>)>>,
      <<Ints(<<0, 1, 2, 3>>), Ints(<<0, 2, 2, 0>>)>>,
      <<Ints(<<0, 1, 3>>), Ints(<<1, 2, 0>>)>>,
      << <<R(0), Rat(3, 2), R(3)>>, Ints(<<1, 1, 2>>) >>,
      <<Ints(<<0, 1, 2>>), Ints(<<1, 0, 2>>)>>,
      <<Ints(<<1>>), Ints(<<1>>)>>,
      << <<Rat(772, 5), R(160), Rat(4262, 25), Rat(4787, 25)>>,
         <<R(0), R(2), Rat(173, 40), Rat(1799, 200)>> >> }

\* The crest is at a vertex, or one unit before the first or after the last
\* vertex (so that one side of the crest holds no vertex).
Crests(xs) ==
    Range(xs) \cup {RSub(xs[1], R(1)), RAdd(xs[Len(xs)], R(1))}

Schematizations ==
    UNION { { [x_positions |-> p[1], z_positions |-> p[2], outer_crest |-> c]
              : c \in Crests(p[1]) } : p \in Profiles }

Coords == {R(i) : i \in 0..MaxCoord}

\* (count, spacing) as the caller may pass them: a count alone, a spacing
\* alone, neither, or both.
Samplings ==
    {<<Some(n), None>> : n \in 0..MaxCount}
    \cup {<<None, Some(R(d))>> : d \in 0..MaxStep}
    \cup {<<None, None>>, <<Some(MaxCount), Some(R(1))>>}

\* RevetmentZoneDefinition.__init__ sets include_schematization_coordinates
\* to False; the caller assigns it afterwards.
HorizontalZones ==
    { [cls |-> "HorizontalRevetmentZoneDefinition",
       x_min |-> a, x_max |-> b, nx |-> s[1], dx_max |-> s[2],
       include_schematization_coordinates |-> FALSE]
      : a \in Coords, b \in Coords, s \in Samplings }

VerticalZones ==
    { [cls |-> "VerticalRevetmentZoneDefinition",
       z_min |-> a, z_max |-> b, nz |-> s[1], dz_max |-> s[2],
       include_schematization_coordinates |-> FALSE]
      : a \in Coords, b \in Coords, s \in Samplings }

\* AsphaltRevetmentZoneSpecification.__init__: the four parameters it is
\* given, the two fixed tags and the five attributes left unset.
AsphaltSpecs ==
    { [calculation_method |-> "AsphaltWaveImpact",
       top_layer_type |-> "WAB",
       flexural_strength |-> R(f),
       soil_elasticity |-> R(f + 1),
       upper_layer_thickness |-> R(f + 2),
       upper_layer_elastic_modulus |-> R(f + 3),
       sub_layer_thickness |-> None,
       sub_layer_elastic_modulus |-> None,
       fatigue_alpha |-> None,
       fatigue_beta |-> None,
       top_layer_stiffness_relation_nu |-> None]
      : f \in {5} }

\* ------------------------------------------------------------------- state

VARIABLES
    zone,     \* the zone definition (the specification's zone_definition)
    spec,     \* the asphalt zone specification's own attributes
    schem,    \* the dike schematization the caller supplies
    first,    \* the first call made and what it returned
    last,     \* the latest call made and what it returned
    between   \* whether a call other than the first one's was made after it

vars == <<zone, spec, schem, first, last, between>>

NoCall == [op |-> "none", include |-> FALSE, inner_slope |-> FALSE, result |-> Raise("")]

Call(op, inner_slope, result) ==
    [op |-> op, include |-> zone.include_schematization_coordinates,
     inner_slope |-> inner_slope, result |-> result]

Init ==
    /\ zone \in HorizontalZones \cup VerticalZones
    /\ spec \in AsphaltSpecs
    /\ schem \in Schematizations
    /\ first = NoCall
    /\ last = NoCall
    /\ between = FALSE

\* Two calls of the same method with the same arguments on the same
\* configuration.
SameCall(c, d) ==
    /\ c.op = d.op
    /\ c.include = d.include
    /\ c.inner_slope = d.inner_slope

\* The bookkeeping of a call: it is the latest, and the first if none was made.
Record(call) ==
    /\ last' = call
    /\ first' = IF first.op = "none" THEN call ELSE first
    /\ between' = (between \/ (first.op # "none" /\ ~SameCall(call, first)))

\* get_x_coordinates storing the count it resolved in self.nx.
GetXCoordinatesHorizontalCachingNx ==
    /\ IsHorizontal(zone)
    /\ Record(Call("get_x_coordinates", FALSE, HorizontalGetXCoordinates(zone, schem)))
    /\ LET nx == ResolveCount(zone.nx, zone.x_min, zone.x_max, zone.dx_max)
       IN  zone' = IF nx.kind = "ok" THEN [zone EXCEPT !.nx = Some(nx.value)] ELSE zone
    /\ UNCHANGED <<spec, schem>>

\* zone.get_x_coordinates(schem) on a horizontal zone.
GetXCoordinatesHorizontal ==
    /\ IsHorizontal(zone)
    /\ Record(Call("get_x_coordinates", FALSE, HorizontalGetXCoordinates(zone, schem)))
    /\ UNCHANGED <<zone, spec, schem>>

\* zone.get_x_coordinates(schem, inner_slope) on a vertical zone.
GetXCoordinatesVertical ==
    /\ ~IsHorizontal(zone)
    /\ \E inner_slope \in BOOLEAN :
          Record(Call("get_x_coordinates", inner_slope,
                      VerticalGetXCoordinates(zone, schem, inner_slope)))
    /\ UNCHANGED <<zone, spec, schem>>

\* spec.get_output_locations(schem)
GetOutputLocations ==
    /\ Record(Call("get_output_locations", FALSE,
                   AsphaltGetOutputLocations(spec, zone, schem)))
    /\ UNCHANGED <<zone, spec, schem>>

\* The caller's zone.include_schematization_coordinates = b.
SetIncludeSchematizationCoordinates ==
    /\ \E b \in BOOLEAN :
          /\ b # zone.include_schematization_coordinates
          /\ zone' = [zone EXCEPT !.include_schematization_coordinates = b]
    /\ UNCHANGED <<spec, schem, first, last, between>>

Next ==
    \/ GetXCoordinatesHorizontal
    \/ GetXCoordinatesVertical
    \/ GetOutputLocations
    \/ SetIncludeSchematizationCoordinates

Spec == Init /\ [][Next]_vars

\* ------------------------------------------------------------------ claims

Ascending(seq) == \A i \in 1..Len(seq) - 1 : RLeq(seq[i], seq[i + 1])
StrictlyAscending(seq) == \A i \in 1..Len(seq) - 1 : RLt(seq[i], seq[i + 1])

\* n is ceil(span / d) + 1 for d > 0: n - 1 is the least integer k with
\* k * d >= span.
IsCeilPlusOne(n, span, d) ==
    /\ RLeq(span, RMul(R(n - 1), d))
    /\ RLt(RMul(R(n - 2), d), span)

\* Neither or both of count and spacing, or min >= max.
InvalidConfiguration ==
    IF IsHorizontal(zone)
    THEN \/ (zone.nx = None) = (zone.dx_max = None)
         \/ RLeq(zone.x_max, zone.x_min)
    ELSE \/ (zone.nz = None) = (zone.dz_max = None)
         \/ RLeq(zone.z_max, zone.z_min)

GotX(call) == call.op = "get_x_coordinates" /\ call.result.kind = "ok"

\* The latest call is get_x_coordinates on a horizontal zone with
\* x_min < x_max.
HorizontalCase ==
    /\ IsHorizontal(zone)
    /\ RLt(zone.x_min, zone.x_max)
    /\ last.op = "get_x_coordinates"

\* What C1 says of the sequence a horizontal zone returns.
HorizontalShape ==
    LET xs == last.result.value
    IN  /\ last.result.kind = "ok"
        /\ Len(xs) >= 1
        /\ Ascending(xs)
        /\ xs[1] = zone.x_min
        /\ xs[Len(xs)] = zone.x_max
        /\ ~last.include =>
              IF zone.nx # None THEN Len(xs) = zone.nx[1]
              ELSE IsCeilPlusOne(Len(xs), RSub(zone.x_max, zone.x_min), zone.dx_max[1])

CountAtLeastTwo ==
    IF zone.nx # None THEN zone.nx[1] >= 2
    ELSE zone.dx_max # None /\ RLt(R(0), zone.dx_max[1])

XDike == BoolIndex(schem.x_positions, FilterMask(schem, last.inner_slope))
ZDike == BoolIndex(schem.z_positions, FilterMask(schem, last.inner_slope))

StrictlyDescending(seq) == \A i \in 1..Len(seq) - 1 : RLt(seq[i + 1], seq[i])

\* [z_min, z_max] lies within the z-range of the filtered profile.
ZoneWithinProfile ==
    /\ \E i \in 1..Len(ZDike) : RLeq(ZDike[i], zone.z_min)
    /\ \E i \in 1..Len(ZDike) : RLeq(zone.z_max, ZDike[i])

\* C2 as stated, in the case most favourable to it (z_min < z_max within the
\* z-range of a filtered profile whose z is strictly monotonic): every
\* x-value a vertical zone returns, on either side of the crest, maps back
\* by linear interpolation x -> z on the filtered profile to a z within
\* [z_min, z_max].
C2_RoundTrip ==
    (/\ ~IsHorizontal(zone)
     /\ GotX(last)
     /\ RLt(zone.z_min, zone.z_max)
     /\ StrictlyAscending(ZDike) \/ StrictlyDescending(ZDike)
     /\ ZoneWithinProfile)
    => \A i \in 1..Len(last.result.value) :
          LET z == InterpOne(last.result.value[i], XDike, ZDike)
          IN  RLeq(zone.z_min, z) /\ RLeq(z, zone.z_max)

\* first and last are get_x_coordinates calls that returned, with the same
\* inner_slope, one with splicing off and one with splicing on.
OnOffPair ==
    /\ first.op = "get_x_coordinates"
    /\ last.op = "get_x_coordinates"
    /\ first.inner_slope = last.inner_slope
    /\ first.include # last.include

SplicedCall == IF last.include THEN last ELSE first
PlainCall == IF last.include THEN first ELSE last

\* C3: for the same zone, schematization and side, the coordinates returned
\* with include_schematization_coordinates = true are a superset of those
\* returned with it false (and the call returns whenever the other does).
C3_SpliceSuperset ==
    (OnOffPair /\ PlainCall.result.kind = "ok")
    => /\ SplicedCall.result.kind = "ok"
       /\ Range(PlainCall.result.value) \subseteq Range(SplicedCall.result.value)

\* Splicing on a vertical zone added a vertex to a non-empty plain result.
C3_Witness ==
    /\ OnOffPair
    /\ ~IsHorizontal(zone)
    /\ ~InvalidConfiguration
    /\ PlainCall.result.kind = "ok"
    /\ Len(PlainCall.result.value) >= 2
    /\ Cardinality(Range(SplicedCall.result.value))
           > Cardinality(Range(PlainCall.result.value))

\* first and last are one get_output_locations call and one
\* get_x_coordinates call (outer side) on the same configuration.
LocationsPair ==
    /\ first.include = last.include
    /\ ~first.inner_slope /\ ~last.inner_slope
    /\ {first.op, last.op} = {"get_x_coordinates", "get_output_locations"}

LocationsCall == IF last.op = "get_output_locations" THEN last ELSE first
CoordinatesCall == IF last.op = "get_output_locations" THEN first ELSE last

\* C4: get_output_locations returns one record per coordinate of the zone
\* definition's get_x_coordinates, in the same order with the same values,
\* each carrying the specification's flexural strength, soil elasticity,
\* upper-layer thickness and upper-layer elastic modulus.
C4_OneRecordPerCoordinate ==
    (LocationsPair /\ CoordinatesCall.result.kind = "ok")
    => LET locations == LocationsCall.result.value
           xs == CoordinatesCall.result.value
       IN  /\ LocationsCall.result.kind = "ok"
           /\ Len(locations) = Len(xs)
           /\ \A i \in 1..Len(xs) :
                 /\ locations[i].x_position = xs[i]
                 /\ locations[i].flexural_strength = spec.flexural_strength
                 /\ locations[i].soil_elasticity = spec.soil_elasticity
                 /\ locations[i].upper_layer_thickness = spec.upper_layer_thickness
                 /\ locations[i].upper_layer_elastic_modulus
                        = spec.upper_layer_elastic_modulus

\* Three or more records for three or more distinct coordinates.
C4_Witness ==
    /\ LocationsPair
    /\ last.op = "get_output_locations"
    /\ last.result.kind = "ok"
    /\ Len(last.result.value) >= 3
    /\ StrictlyAscending(first.result.value)

\* C5 as stated: get_x_coordinates on a zone configured with neither or both
\* of count and spacing, or with min >= max, raises an error and returns no
\* coordinate sequence.
C5_InvalidConfigurationRaises ==
    (InvalidConfiguration /\ last.op = "get_x_coordinates")
    => last.result.kind = "error"

\* No vertex of the schematization is on the selected side of the crest.
NoVertexOnSide(inner_slope) ==
    \A i \in 1..Len(schem.x_positions) :
        IF inner_slope
        THEN RLt(schem.x_positions[i], schem.outer_crest)
        ELSE RLt(schem.outer_crest, schem.x_positions[i])

\* C6: when the crest filter leaves no vertex, get_x_coordinates of a
\* vertical zone fails with an error and returns no sequence, and
\* get_output_locations fails with an error too and returns no record.
C6_EmptySideRaises ==
    (/\ ~IsHorizontal(zone)
     /\ last.op # "none"
     /\ NoVertexOnSide(last.inner_slope))
    => /\ last.result.kind = "error"
       /\ last.result.value = <<>>
       /\ (last.op = "get_output_locations" /\ first.op = "get_x_coordinates"
             /\ ~first.inner_slope)
          => last.result = first.result

\* get_output_locations failed on a well-configured vertical zone whose
\* outer side is empty, with the error get_x_coordinates raised.
C6_Witness ==
    /\ ~IsHorizontal(zone)
    /\ ~InvalidConfiguration
    /\ NoVertexOnSide(FALSE)
    /\ last.op = "get_output_locations"
    /\ first.op = "get_x_coordinates" /\ ~first.inner_slope
    /\ last.result.error = "ValueError"

\* C7: a call changes no attribute of the zone definition, the zone
\* specification or the schematization (the zone changes only when the
\* caller assigns include_schematization_coordinates, which is no call), and
\* a call repeated on the same configuration with the same arguments returns
\* what the first such call returned, whatever was called in between.
C7_CallsArePure ==
    [][/\ spec' = spec
       /\ schem' = schem
       /\ zone' # zone =>
             /\ first' = first /\ last' = last
             /\ zone' = [zone EXCEPT !.include_schematization_coordinates = ~@]
       /\ SameCall(first', last') => last'.result = first'.result]_vars

\* The first call was repeated after a different call and returned again.
C7_Witness ==
    /\ between
    /\ ~InvalidConfiguration
    /\ SameCall(first, last)
    /\ last.result.kind = "ok"
    /\ Len(last.result.value) >= 2

\* C8 as stated: every get_x_coordinates that returns, on a well-configured
\* zone, returns a strictly ascending sequence (no x-value twice), also when
\* the z-range extends beyond the z-range of the filtered profile.
C8_AlwaysDeduplicated ==
    (GotX(last) /\ ~InvalidConfiguration) => StrictlyAscending(last.result.value)

\* C8 (amended): get_x_coordinates returns a strictly ascending sequence
\* whenever include_schematization_coordinates is true (horizontal and
\* vertical, either side, also when the z-range extends beyond the profile),
\* and for a horizontal zone with x_min < x_max also when it is false; a
\* vertical zone without splicing returns the interpolated values as they
\* are, repeated values included.
C8_DeduplicatedWhenSpliced ==
    GotX(last) =>
        /\ last.include => StrictlyAscending(last.result.value)
        /\ (IsHorizontal(zone) /\ RLt(zone.x_min, zone.x_max))
              => StrictlyAscending(last.result.value)

\* A spliced vertical result shorter than its z-grid: values the
\* interpolation repeated were merged.
C8_Witness ==
    /\ ~IsHorizontal(zone)
    /\ ~InvalidConfiguration
    /\ GotX(last)
    /\ last.include
    /\ Len(last.result.value) >= 2
    /\ Len(last.result.value) < Len(last.result.grid)

ZoneMin == IF IsHorizontal(zone) THEN zone.x_min ELSE zone.z_min
ZoneMax == IF IsHorizontal(zone) THEN zone.x_max ELSE zone.z_max
ZoneCount == IF IsHorizontal(zone) THEN zone.nx ELSE zone.nz
ZoneStep == IF IsHorizontal(zone) THEN zone.dx_max ELSE zone.dz_max

\* The latest call returned on a zone whose count is unset and whose spacing
\* is positive.
SpacingCase ==
    /\ GotX(last)
    /\ ZoneCount = None
    /\ ZoneStep # None
    /\ RLt(R(0), ZoneStep[1])

\* C9: with nx (nz) unset and dx_max (dz_max) positive, the grid has exactly
\* ceil((max - min) / d_max) + 1 points, evenly spaced from min to max, and
\* consecutive grid points are at most d_max apart.
C9_SpacingAtMostMax ==
    SpacingCase =>
        LET grid == last.result.grid
            n == Len(grid)
        IN  /\ IsCeilPlusOne(n, RSub(ZoneMax, ZoneMin), ZoneStep[1])
            /\ n >= 1 => grid[1] = ZoneMin
            /\ n >= 2 => grid[n] = ZoneMax
            /\ \A i \in 1..n - 1 :
                  /\ RSub(grid[i + 1], grid[i]) = RSub(grid[2], grid[1])
                  /\ RLeq(RSub(grid[i + 1], grid[i]), ZoneStep[1])

\* A vertical z-grid whose spacing is strictly below dz_max.
C9_Witness ==
    /\ SpacingCase
    /\ ~IsHorizontal(zone)
    /\ Len(last.result.grid) >= 2
    /\ RLt(R(0), RSub(last.result.grid[2], last.result.grid[1]))
    /\ RLt(RSub(last.result.grid[2], last.result.grid[1]), ZoneStep[1])

\* Vertex i lies on the selected side of the crest, the crest included.
OnSide(i, inner_slope) ==
    IF inner_slope
    THEN RLeq(schem.outer_crest, schem.x_positions[i])
    ELSE RLeq(schem.x_positions[i], schem.outer_crest)

InZRange(i) ==
    RLeq(zone.z_min, schem.z_positions[i]) /\ RLeq(schem.z_positions[i], zone.z_max)

Vertices == 1..Len(schem.x_positions)

====
